---- MODULE Spec2Model ----
(***************************************************************************)
(* The city-pop chord generator (EnhancedCityPopGenerator and its export    *)
(* generateAndDownloadMidi) as a state machine.                             *)
(*                                                                          *)
(* Math.random() is the only input besides the options.  A run reads its    *)
(* draws from a tape: a cyclic sequence of TapeLen draws, each one of       *)
(* RandLevels evenly spaced values of [0,1) written as numerators over      *)
(* RandDen.  Init picks the tape and the options; every draw of the code    *)
(* is taken from the tape in the order the code makes it, `draws' counting  *)
(* the calls made so far.                                                   *)
(*                                                                          *)
(* Reals are kept as scaled integers:                                       *)
(*   tempo, velocity      in 1/RandDen                                      *)
(*   times, durations     in 1/(200*RandDen) seconds                        *)
(*   tension-arc values   in 1/(10*length*RandDen)                          *)
(***************************************************************************)
EXTENDS Integers, Sequences, FiniteSets

VARIABLES
    variant,      \* "enhanced" (part_000) or "basic" (sailormoongene.ts)
    options,      \* [era, style, artistInfluence], "none" for an unset option
    tape,         \* the draws Math.random() returns, cyclically
    draws,        \* Math.random() calls made so far
    pc,           \* "Idle", "Emitting", "Done", "Failed"
    step,         \* loop index i of generateMidiFile
    time,         \* loop variable time
    tempo,        \* tempo written to the header (0 before it is chosen)
    progression,  \* index of the chosen progression template (0 before)
    tensionArc,   \* result of generateTensionArc(length)
    prevNotes,    \* loop variable prevNotes
    selected,     \* key of the voicing selected in the last iteration
    chords,       \* per finished iteration: what createRichVoicing returned
                  \* (spread), the list after voice leading (notes) and the
                  \* previous chord the smoother read (ref)
    track,        \* the notes handed to track.addNote, one sequence per step
    calls,        \* calls of generateMidiFile made so far
    blobs,        \* calls of URL.createObjectURL made so far
    outcome,      \* what generateAndDownloadMidi gave its caller
    probe         \* ArcSpec and SmoothSpec: the arguments and the result of the
                  \* function applied on its own ([fn |-> "none"] in Spec)

vars == << variant, options, tape, draws, pc, step, time, tempo, progression,
           tensionArc, prevNotes, selected, chords, track, calls, blobs,
           outcome, probe >>

-----------------------------------------------------------------------------
(* Bounds of the model *)

RandLevels == 3
TapeLen == 3
RandDen == 1000
MaxArcLen == 6
MaxPrevLen == 2
SmoothSpan == 4

(* Program constants *)

\* const length = 8
length == 8

-----------------------------------------------------------------------------
(* Arithmetic helpers *)

Abs(x) == IF x < 0 THEN -x ELSE x
Min(a, b) == IF a < b THEN a ELSE b
Max(a, b) == IF a > b THEN a ELSE b

Range(s) == { s[i] : i \in 1..Len(s) }

SeqMax(s) == CHOOSE m \in Range(s) : \A x \in Range(s) : x <= m

RECURSIVE Insert(_, _)
Insert(s, x) ==
    IF s = << >> THEN << x >>
    ELSE IF x < Head(s) THEN << x >> \o s
    ELSE << Head(s) >> \o Insert(Tail(s), x)

\* Array.prototype.sort((a, b) => a - b)
RECURSIVE sortAscending(_)
sortAscending(s) == IF s = << >> THEN << >> ELSE Insert(sortAscending(Tail(s)), Head(s))

\* Set.prototype.add on a Set kept in insertion order
SetAdd(s, x) == IF x \in Range(s) THEN s ELSE Append(s, x)

-----------------------------------------------------------------------------
(* The random source *)

Level(j) == (j * (RandDen - 1)) \div (RandLevels - 1)

Tapes == [ 1..TapeLen -> 0..(RandLevels - 1) ]

\* the value of the (k+1)-th Math.random() call on tape t, over RandDen
Rand(t, k) == Level(t[(k % TapeLen) + 1])

\* Math.random() < num/den
Below(t, k, num, den) == Rand(t, k) * den < num * RandDen

\* Math.floor(Math.random() * n)
Pick(t, k, n) == (Rand(t, k) * n) \div RandDen

-----------------------------------------------------------------------------
(* Catalogs of the enhanced generator (part_000) *)

Eras == { "none", "70s", "early80s", "mid80s", "late80s" }
Styles == { "none", "ballad", "uptempo", "fusion" }
Artists == { "none", "Tatsuro Yamashita", "Mariya Takeuchi",
             "Toshiki Kadomatsu", "Anri" }

\* Object.keys(this.voicings), in insertion order
voicingKeys == << "maj9", "maj7_13", "min11", "maj9_13", "maj7_9_13",
                  "kadomatsu_fusion", "anri_pop" >>

\* era and artistStyle are "none" where the template leaves them out
voicings ==
    [ maj9 |-> [ intervals |-> << 0, 4, 7, 11, 14 >>, tensions |-> << 9, 13 >>,
                 alterations |-> << 8, 15 >>,
                 era |-> "early80s", artistStyle |-> "none" ],
      maj7_13 |-> [ intervals |-> << 0, 4, 7, 11, 21 >>, tensions |-> << 9, 13 >>,
                 alterations |-> << 8, 15 >>,
                 era |-> "mid80s", artistStyle |-> "none" ],
      min11 |-> [ intervals |-> << 0, 3, 7, 10, 14, 17 >>, tensions |-> << 15, 22 >>,
                 alterations |-> << 8 >>,
                 era |-> "early80s", artistStyle |-> "none" ],
      maj9_13 |-> [ intervals |-> << 0, 4, 7, 11, 14, 21 >>, tensions |-> << 13, 15 >>,
                 alterations |-> << 8, 22 >>,
                 era |-> "none", artistStyle |-> "Tatsuro Yamashita" ],
      maj7_9_13 |-> [ intervals |-> << 0, 4, 7, 11, 14, 21 >>,
                 tensions |-> << 13, 15, 22 >>, alterations |-> << 8, 15 >>,
                 era |-> "none", artistStyle |-> "Mariya Takeuchi" ],
      kadomatsu_fusion |-> [ intervals |-> << 0, 4, 7, 10, 15, 21 >>,
                 tensions |-> << 9, 13, 15 >>, alterations |-> << 8, 22 >>,
                 era |-> "none", artistStyle |-> "Toshiki Kadomatsu" ],
      anri_pop |-> [ intervals |-> << 0, 4, 7, 11, 14 >>, tensions |-> << 9, 13 >>,
                 alterations |-> << 15 >>,
                 era |-> "none", artistStyle |-> "Anri" ] ]

\* complexity in tenths
progressionTemplates ==
    << [ roots |-> << 0, 5, 3, 4 >>, style |-> "standard", complexity |-> 7 ],
       [ roots |-> << 0, 5, 1, 4 >>, style |-> "jazz", complexity |-> 8 ],
       [ roots |-> << 3, 4, 0, 5, 1 >>, style |-> "fusion", complexity |-> 9 ],
       [ roots |-> << 0, 2, 5, 1 >>, style |-> "ballad", complexity |-> 6 ] >>

\* swingFactor in hundredths
styleSettings ==
    [ ballad |-> [ tempoRange |-> << 65, 80 >>, velocityRange |-> << 60, 85 >>,
                   swingFactor |-> 20 ],
      uptempo |-> [ tempoRange |-> << 120, 135 >>, velocityRange |-> << 75, 95 >>,
                    swingFactor |-> 40 ],
      fusion |-> [ tempoRange |-> << 90, 110 >>, velocityRange |-> << 70, 90 >>,
                   swingFactor |-> 30 ] ]

\* this.options.style || 'uptempo'
activeStyle(opts) == IF opts.style = "none" THEN "uptempo" ELSE opts.style

-----------------------------------------------------------------------------
(* Voicing Builder of the enhanced generator *)

\* one call of adjustNoteForEra; the eras that draw are "70s" and "mid80s"
eraDraws(opts) == opts.era \in { "70s", "mid80s" }

adjustNoteForEra(opts, t, k, note) ==
    CASE opts.era = "70s" -> note - (IF Below(t, k, 3, 10) THEN 12 ELSE 0)
      [] opts.era = "mid80s" -> note + (IF Below(t, k, 4, 10) THEN 12 ELSE 0)
      [] OTHER -> note

\* the probability in tenths
getEraTensionProbability(opts) ==
    CASE opts.era = "70s" -> 5
      [] opts.era = "early80s" -> 7
      [] opts.era = "mid80s" -> 9
      [] opts.era = "late80s" -> 6
      [] OTHER -> 7

\* [val, k]: the bass offset and the draws made when it returns
getBassProbability(opts, t, k) ==
    CASE opts.era = "70s" -> [ val |-> 12, k |-> k ]
      [] opts.era = "mid80s" ->
           [ val |-> IF Below(t, k, 5, 10) THEN 24 ELSE 12, k |-> k + 1 ]
      [] OTHER ->
           [ val |-> IF Below(t, k, 3, 10) THEN 24 ELSE 12, k |-> k + 1 ]

\* notes.forEach(note => { if (note - root > 12) notes.add(note - 12) }): a Set's
\* forEach also visits the values added while it runs
RECURSIVE closerVoicing(_, _, _)
closerVoicing(notes, root, i) ==
    IF i > Len(notes) THEN notes
    ELSE closerVoicing(IF notes[i] - root > 12 THEN SetAdd(notes, notes[i] - 12)
                       ELSE notes, root, i + 1)

applyArtistModifications(opts, notes, root) ==
    CASE opts.artistInfluence = "Tatsuro Yamashita" -> SetAdd(notes, root + 22)
      [] opts.artistInfluence = "Mariya Takeuchi" -> closerVoicing(notes, root, 1)
      [] opts.artistInfluence = "Toshiki Kadomatsu" ->
           SetAdd(SetAdd(notes, root + 21), root + 15)
      [] OTHER -> notes

\* voicing.intervals.forEach(...): the base intervals, each through adjustNoteForEra
RECURSIVE addIntervals(_, _, _, _, _, _)
addIntervals(opts, t, k, root, intervals, notes) ==
    IF intervals = << >> THEN [ notes |-> notes, k |-> k ]
    ELSE addIntervals(opts, t, IF eraDraws(opts) THEN k + 1 ELSE k, root,
                      Tail(intervals),
                      SetAdd(notes, adjustNoteForEra(opts, t, k, root + Head(intervals))))

\* the tension loop: n iterations left
RECURSIVE addTensions(_, _, _, _, _, _, _)
addTensions(opts, t, k, root, tensions, n, notes) ==
    IF n = 0 THEN [ notes |-> notes, k |-> k ]
    ELSE IF Below(t, k, getEraTensionProbability(opts), 10)
         THEN addTensions(opts, t, k + 2, root, tensions, n - 1,
                  SetAdd(notes, root + tensions[Pick(t, k + 1, Len(tensions)) + 1]))
         ELSE addTensions(opts, t, k + 1, root, tensions, n - 1, notes)

-----------------------------------------------------------------------------
(* Register Spreader of the enhanced generator *)

\* the minimum spacing loop from index i (1-based) on; it reads the entry before
\* it as the loop left it
RECURSIVE ensureSpacing(_, _, _)
ensureSpacing(spread, minSpacing, i) ==
    IF i > Len(spread) THEN spread
    ELSE ensureSpacing(IF spread[i] - spread[i - 1] < minSpacing
                       THEN [ spread EXCEPT ![i] = @ + 12 ]
                       ELSE spread, minSpacing, i + 1)

\* spread.map(note => note > spread[0] + limit ? note - 12 : note), limit = num/den
pullDown(spread, num, den) ==
    [ i \in 1..Len(spread) |->
        IF spread[i] * den > spread[1] * den + num THEN spread[i] - 12 ELSE spread[i] ]

\* optimizeRange without its "too high" branch
optimizeRangeLowOnly(note) == IF note < 36 THEN note + 12 ELSE note

\* the body of the "Optimize overall range" map
optimizeRange(note) ==
    IF note < 36 THEN note + 12
    ELSE IF note > 84 THEN note - 12
    ELSE note

\* the octave doubling: [spread, k]
addDoubling(opts, t, k, spread) ==
    IF opts.style = "fusion"
    THEN [ spread |-> Append(spread, spread[Pick(t, k, Len(spread)) + 1] + 12),
           k |-> k + 1 ]
    ELSE IF Below(t, k, 4, 10)
    THEN [ spread |-> Append(spread, spread[Pick(t, k + 1, Len(spread)) + 1] + 12),
           k |-> k + 2 ]
    ELSE [ spread |-> spread, k |-> k + 1 ]

\* the era-specific spread adjustments
eraSpread(opts, spread) ==
    LET maxSpacing == IF opts.style = "fusion" THEN 24 ELSE 12
    IN  CASE opts.era = "mid80s" -> pullDown(spread, maxSpacing, 1)
          [] opts.era = "70s" -> pullDown(spread, maxSpacing, 2)
          [] OTHER -> spread

\* the artist-specific adjustments: [spread, k]
artistSpread(opts, t, k, spread) ==
    LET maxSpacing == IF opts.style = "fusion" THEN 24 ELSE 12
    IN  CASE opts.artistInfluence = "Tatsuro Yamashita" ->
               [ spread |-> IF Below(t, k, 5, 10)
                            THEN Append(spread, SeqMax(spread) + 12) ELSE spread,
                 k |-> k + 1 ]
          [] opts.artistInfluence = "Mariya Takeuchi" ->
               \* maxSpacing / 1.5
               [ spread |-> pullDown(spread, 2 * maxSpacing, 3), k |-> k ]
          [] OTHER -> [ spread |-> spread, k |-> k ]

\* the position-based growth: [spread, k]
positionGrowth(t, k, spread, position) ==
    IF position > 0
    THEN IF Below(t, k, position, 8)
         THEN [ spread |-> Append(spread, SeqMax(spread) +
                                  (IF Below(t, k + 1, 5, 10) THEN 12 ELSE 7)),
                k |-> k + 2 ]
         ELSE [ spread |-> spread, k |-> k + 1 ]
    ELSE [ spread |-> spread, k |-> k ]

\* [notes, k]: the returned array and the draws made when it returns
spreadVoicing(opts, t, k, notes, position) ==
    LET minSpacing == IF opts.style = "ballad" THEN 3 ELSE 2
        spaced == ensureSpacing(sortAscending(notes), minSpacing, 2)
        doubled == addDoubling(opts, t, k, spaced)
        byEra == eraSpread(opts, doubled.spread)
        byArtist == artistSpread(opts, t, doubled.k, byEra)
        ranged == [ i \in 1..Len(byArtist.spread) |->
                      optimizeRange(byArtist.spread[i]) ]
        grown == positionGrowth(t, byArtist.k, ranged, position)
    IN  [ notes |-> sortAscending(grown.spread), k |-> grown.k ]

\* complexity = cnum/cden.  [notes, k]
createRichVoicing(opts, t, k, root, voicing, cnum, cden, position) ==
    LET base == addIntervals(opts, t, k, root, voicing.intervals, << >>)
        tensionCount == (cnum * (IF opts.era = "mid80s" THEN 3 ELSE 2)) \div cden
        tense == addTensions(opts, t, base.k, root, voicing.tensions,
                             tensionCount, base.notes)
        styled == IF voicing.artistStyle = opts.artistInfluence
                  THEN applyArtistModifications(opts, tense.notes, root)
                  ELSE tense.notes
        bass == getBassProbability(opts, t, tense.k)
    IN  spreadVoicing(opts, t, bass.k, SetAdd(styled, root - bass.val), position)

-----------------------------------------------------------------------------
(* Tension Arc Generator (the same code in both generators) *)

\* Math.floor(length / phi), phi = (1 + sqrt 5) / 2: the largest p with
\* p * (1 + sqrt 5) <= 2 * len, that is 5 p^2 <= (2 len - p)^2
peakOf(len) ==
    CHOOSE p \in 0..len :
        /\ 5 * p * p <= (2 * len - p) * (2 * len - p)
        /\ \A q \in (p + 1)..len : 5 * q * q > (2 * len - q) * (2 * len - q)

\* clampTension without the upper limit
clampTensionLowOnly(len, x) == Max(3 * len * RandDen, x)

\* Math.max(0.3, Math.min(0.9, x)), in 1/(10 * len * RandDen)
clampTension(len, x) == Max(3 * len * RandDen, Min(9 * len * RandDen, x))

\* the map callback at index i (0-based), in 1/(10 * len * RandDen):
\*   baseTension  = 0.5 + 0.4 * (1 - |i - peak| / (len / 2))
\*   randomFactor = (Math.random() - 0.5) * 0.2
tensionAt(len, t, k, i) ==
    LET baseTension == 5 * len * RandDen
                       + 4 * (len * RandDen - 2 * Abs(i - peakOf(len)) * RandDen)
        randomFactor == (2 * Rand(t, k) - RandDen) * len
    IN  clampTension(len, baseTension + randomFactor)

\* Array(length).fill(0).map(...): the draw of index i is the (k + i + 1)-th call
generateTensionArc(len, t, k) ==
    [ i \in 1..len |-> tensionAt(len, t, k + i - 1, i - 1) ]

-----------------------------------------------------------------------------
(* Voice-Leading Smoother (the same code in both generators) *)

\* prevNotes.reduce((prev, curr) => |curr - note| < |prev - note| ? curr : prev)
\* from index i on, acc being the accumulator
RECURSIVE reduceClosest(_, _, _, _)
reduceClosest(prev, note, i, acc) ==
    IF i > Len(prev) THEN acc
    ELSE reduceClosest(prev, note, i + 1,
                       IF Abs(prev[i] - note) < Abs(acc - note) THEN prev[i] ELSE acc)

closestTo(prev, note) == reduceClosest(prev, note, 2, prev[1])

\* leadVoice shifting away from the closest note
leadVoiceAway(note, closest) ==
    IF Abs(closest - note) > 7
    THEN note + (IF closest > note THEN -12 ELSE 12)
    ELSE note

\* if (|closest - note| > 7) notes[idx] = note + (closest > note ? 12 : -12)
leadVoice(note, closest) ==
    IF Abs(closest - note) > 7
    THEN note + (IF closest > note THEN 12 ELSE -12)
    ELSE note

\* the "voice leading" block of the loop body
smoothVoiceLeading(notes, prev) ==
    IF Len(prev) > 0
    THEN [ idx \in 1..Len(notes) |-> leadVoice(notes[idx], closestTo(prev, notes[idx])) ]
    ELSE notes

-----------------------------------------------------------------------------
(* Emission *)

\* clampMidi with the two limits swapped
clampMidiSwapped(note) == Max(127, Min(0, note))

\* midi: Math.max(0, Math.min(127, note))
clampMidi(note) == Max(0, Min(127, note))

\* time + (Math.random() * swingFactor - swingFactor / 2), in 1/(200 * RandDen) s
applySwing(opts, t, k, tm) ==
    LET swingFactor == styleSettings[activeStyle(opts)].swingFactor
    IN  tm + (2 * Rand(t, k) * swingFactor - swingFactor * RandDen)

\* velocityOf scaling the draw by the upper limit, not by the width of the range
velocityOfUpper(opts, t, k) ==
    LET range == styleSettings[activeStyle(opts)].velocityRange
    IN  range[1] * RandDen + Rand(t, k) * range[2]

\* velocityRange[0] + Math.random() * (velocityRange[1] - velocityRange[0]),
\* in 1/RandDen, before the division by 127
velocityOf(opts, t, k) ==
    LET range == styleSettings[activeStyle(opts)].velocityRange
    IN  range[1] * RandDen + Rand(t, k) * (range[2] - range[1])

\* tempoRange[0] + Math.random() * (tempoRange[1] - tempoRange[0]), in 1/RandDen
tempoOf(opts, t, k) ==
    LET range == styleSettings[activeStyle(opts)].tempoRange
    IN  range[1] * RandDen + Rand(t, k) * (range[2] - range[1])

\* the note handed to track.addNote for notes[idx]; its three draws start at k
noteEvent(opts, t, k, note, chordStart) ==
    [ midi |-> clampMidi(note),
      time |-> chordStart + (2 * Rand(t, k + 1) - RandDen),
      duration |-> 390 * RandDen + 10 * (2 * Rand(t, k + 2) - RandDen),
      velocity |-> velocityOf(opts, t, k) ]

\* notes.forEach(note => track.addNote(...))
addNotes(opts, t, k, notes, chordStart) ==
    [ idx \in 1..Len(notes) |->
        noteEvent(opts, t, k + 3 * (idx - 1), notes[idx], chordStart) ]

-----------------------------------------------------------------------------
(* Composition Driver of the enhanced generator and its export *)

\* Object.keys(this.voicings).filter(...)
filterVoicingKeys(opts) ==
    SelectSeq(voicingKeys, LAMBDA key :
        /\ (opts.era = "none" \/ voicings[key].era = opts.era)
        /\ (opts.artistInfluence = "none"
              \/ voicings[key].artistStyle = opts.artistInfluence))

\* indices of this.progressionTemplates.filter(t => t.style === style || ...)
validTemplates(opts) ==
    SelectSeq(<< 1, 2, 3, 4 >>, LAMBDA n :
        \/ progressionTemplates[n].style = activeStyle(opts)
        \/ progressionTemplates[n].style = "standard")

\* nextPrevNotes keeping the list as spreadVoicing returned it
nextPrevNotesUnsmoothed(spread, notes) == spread

\* what the loop stores for the next iteration: prevNotes = notes
nextPrevNotes(spread, notes) == notes

Pending == [ status |-> "pending", url |-> "none", filename |-> << >>,
             message |-> "none" ]

\* generateAndDownloadMidi(options) up to the loop of generateMidiFile: the
\* tempo, the progression template and the tension arc
Generate ==
    /\ variant = "enhanced"
    /\ pc = "Idle"
    /\ pc' = "Emitting"
    /\ calls' = calls + 1
    /\ tempo' = tempoOf(options, tape, draws)
    /\ progression' = LET valid == validTemplates(options)
                      IN  valid[Pick(tape, draws + 1, Len(valid)) + 1]
    /\ tensionArc' = generateTensionArc(length, tape, draws + 2)
    /\ draws' = draws + 2 + length
    /\ step' = 0
    /\ time' = 0
    /\ prevNotes' = << >>
    /\ UNCHANGED << probe, variant, options, tape, selected, chords, track, blobs,
                    outcome >>

\* one iteration of the loop with a voicing to select
EmitStep ==
    /\ variant = "enhanced"
    /\ pc = "Emitting"
    /\ step < length
    /\ filterVoicingKeys(options) # << >>
    /\ LET template == progressionTemplates[progression]
           root == 60 + template.roots[(step % Len(template.roots)) + 1]
           keys == filterVoicingKeys(options)
           key == keys[Pick(tape, draws, Len(keys)) + 1]
           built == createRichVoicing(options, tape, draws + 1, root, voicings[key],
                        tensionArc[step + 1] * template.complexity,
                        10 * length * RandDen * 10, step)
           notes == smoothVoiceLeading(built.notes, prevNotes)
           chordStart == applySwing(options, tape, built.k, time)
       IN  /\ selected' = key
           /\ chords' = Append(chords, [ spread |-> built.notes, notes |-> notes,
                                         ref |-> prevNotes ])
           /\ track' = Append(track,
                          addNotes(options, tape, built.k + 1, notes, chordStart))
           /\ draws' = built.k + 1 + 3 * Len(notes)
           /\ prevNotes' = nextPrevNotes(built.notes, notes)
    /\ time' = time + 2 * 200 * RandDen
    /\ step' = step + 1
    /\ UNCHANGED << probe, variant, options, tape, pc, tempo, progression, tensionArc,
                    calls, blobs, outcome >>

\* StepThrows with a catch that hands out what there is instead of throwing
StepThrowsSwallowed ==
    /\ variant = "enhanced"
    /\ pc = "Emitting"
    /\ step < length
    /\ filterVoicingKeys(options) = << >>
    /\ selected' = "undefined"
    /\ draws' = draws + 1
    /\ pc' = "Done"
    /\ blobs' = blobs + 1
    /\ outcome' = [ status |-> "returned", url |-> "blob",
                    filename |-> << "citypop", "bpm.mid" >>, message |-> "none" ]
    /\ UNCHANGED << probe, variant, options, tape, step, time, tempo, progression,
                    tensionArc, prevNotes, chords, track, calls >>

\* one iteration of the loop with no voicing left by the filter: voicingKeys[0]
\* is undefined, so is selectedVoicing, and createRichVoicing throws a TypeError
\* reading voicing.intervals; the catch of generateAndDownloadMidi logs it and
\* throws Error('Failed to generate MIDI file')
StepThrows ==
    /\ variant = "enhanced"
    /\ pc = "Emitting"
    /\ step < length
    /\ filterVoicingKeys(options) = << >>
    /\ selected' = "undefined"
    /\ draws' = draws + 1
    /\ pc' = "Failed"
    /\ outcome' = [ status |-> "threw", url |-> "none", filename |-> << >>,
                    message |-> "Failed to generate MIDI file" ]
    /\ UNCHANGED << probe, variant, options, tape, step, time, tempo, progression,
                    tensionArc, prevNotes, chords, track, calls, blobs >>

\* Math.round(tempo), tempo in 1/RandDen
roundTempo(tm) == (2 * tm + RandDen) \div (2 * RandDen)

\* the loop has ended: generateMidiFile returns, generateAndDownloadMidi makes
\* the blob URL and the filename (the Date.now() token left out)
Return ==
    /\ variant = "enhanced"
    /\ pc = "Emitting"
    /\ step >= length
    /\ pc' = "Done"
    /\ blobs' = blobs + 1
    /\ outcome' = [ status |-> "returned", url |-> "blob",
                    filename |-> << "citypop",
                        IF options.era = "none" THEN "standard" ELSE options.era,
                        activeStyle(options), roundTempo(tempo), "bpm.mid" >>,
                    message |-> "none" ]
    /\ UNCHANGED << probe, variant, options, tape, draws, step, time, tempo, progression,
                    tensionArc, prevNotes, selected, chords, track, calls >>

-----------------------------------------------------------------------------
(* The basic generator (src/app/sailormoongene.ts): no options, its own      *)
(* catalogs, builder, spreader and driver                                    *)

voicingKeysBasic == << "maj9", "maj7_13", "min11", "maj9_13", "dom7alt", "min9_13" >>

voicingsBasic ==
    [ maj9 |-> [ intervals |-> << 0, 4, 7, 11, 14 >>, tensions |-> << 9, 13 >>,
                 alterations |-> << 8, 15 >> ],
      maj7_13 |-> [ intervals |-> << 0, 4, 7, 11, 21 >>, tensions |-> << 9, 13 >>,
                 alterations |-> << 8, 15 >> ],
      min11 |-> [ intervals |-> << 0, 3, 7, 10, 14, 17 >>, tensions |-> << 15, 22 >>,
                 alterations |-> << 8 >> ],
      maj9_13 |-> [ intervals |-> << 0, 4, 7, 11, 14, 21 >>, tensions |-> << 13, 15 >>,
                 alterations |-> << 8, 22 >> ],
      dom7alt |-> [ intervals |-> << 0, 4, 7, 10, 15 >>, tensions |-> << 8, 14 >>,
                 alterations |-> << 9, 13 >> ],
      min9_13 |-> [ intervals |-> << 0, 3, 7, 10, 14, 21 >>, tensions |-> << 15, 22 >>,
                 alterations |-> << 8 >> ] ]

progressionTemplatesBasic ==
    << << 0, 5, 3, 4 >>, << 0, 5, 1, 4 >>, << 3, 4, 0, 5 >>, << 0, 2, 3, 4 >> >>

\* voicing.intervals.forEach(interval => notes.add(root + interval))
RECURSIVE addIntervalsBasic(_, _, _)
addIntervalsBasic(root, intervals, notes) ==
    IF intervals = << >> THEN notes
    ELSE addIntervalsBasic(root, Tail(intervals), SetAdd(notes, root + Head(intervals)))

\* the tension loop, n iterations left; Math.random() < complexity = cnum/cden
RECURSIVE addTensionsBasic(_, _, _, _, _, _, _, _)
addTensionsBasic(t, k, root, tensions, cnum, cden, n, notes) ==
    IF n = 0 THEN [ notes |-> notes, k |-> k ]
    ELSE IF Below(t, k, cnum, cden)
         THEN addTensionsBasic(t, k + 2, root, tensions, cnum, cden, n - 1,
                  SetAdd(notes, root + tensions[Pick(t, k + 1, Len(tensions)) + 1]))
         ELSE addTensionsBasic(t, k + 1, root, tensions, cnum, cden, n - 1, notes)

\* if (Math.random() < complexity * 0.7) notes.add(root + one alteration)
addAlteration(t, k, root, alterations, cnum, cden, notes) ==
    IF Below(t, k, 7 * cnum, 10 * cden)
    THEN [ notes |-> SetAdd(notes,
                        root + alterations[Pick(t, k + 1, Len(alterations)) + 1]),
           k |-> k + 2 ]
    ELSE [ notes |-> notes, k |-> k + 1 ]

\* the octave doubling: [spread, k]
addDoublingBasic(t, k, spread) ==
    IF Below(t, k, 4, 10)
    THEN [ spread |-> Append(spread, spread[Pick(t, k + 1, Len(spread)) + 1] + 12),
           k |-> k + 2 ]
    ELSE [ spread |-> spread, k |-> k + 1 ]

\* the body of the "Optimize range" map
optimizeRangeBasic(note) ==
    IF note < 36 THEN note + 12
    ELSE IF note > 84 THEN note - 12
    ELSE note

\* [notes, k]
spreadVoicingBasic(t, k, notes, position) ==
    LET spaced == ensureSpacing(sortAscending(notes), 2, 2)
        doubled == addDoublingBasic(t, k, spaced)
        ranged == [ i \in 1..Len(doubled.spread) |->
                      optimizeRangeBasic(doubled.spread[i]) ]
    IN  [ notes |-> sortAscending(ranged), k |-> doubled.k ]

\* complexity = cnum/cden.  [notes, k]
createRichVoicingBasic(t, k, root, voicing, cnum, cden, position) ==
    LET base == addIntervalsBasic(root, voicing.intervals, << >>)
        \* Math.floor(complexity * 2.5)
        tensionCount == (cnum * 25) \div (cden * 10)
        tense == addTensionsBasic(t, k, root, voicing.tensions, cnum, cden,
                                  tensionCount, base)
        altered == addAlteration(t, tense.k, root, voicing.alterations, cnum, cden,
                                 tense.notes)
        bass == IF Below(t, altered.k, 3, 10) THEN 24 ELSE 12
    IN  spreadVoicingBasic(t, altered.k + 1, SetAdd(altered.notes, root - bass),
                           position)

\* Math.min(100, Math.max(60, 85 + (Math.random() - 0.5) * 20)), in 1/RandDen
velocityBasic(t, k) ==
    Min(100 * RandDen, Max(60 * RandDen, 85 * RandDen + 10 * (2 * Rand(t, k) - RandDen)))

noteEventBasic(t, k, note, chordStart) ==
    [ midi |-> clampMidi(note),
      time |-> chordStart + (2 * Rand(t, k + 1) - RandDen),
      duration |-> 390 * RandDen + 10 * (2 * Rand(t, k + 2) - RandDen),
      velocity |-> velocityBasic(t, k) ]

addNotesBasic(t, k, notes, chordStart) ==
    [ idx \in 1..Len(notes) |->
        noteEventBasic(t, k + 3 * (idx - 1), notes[idx], chordStart) ]

\* generateAndDownloadMidi() up to the loop of generateMidiFile
GenerateBasic ==
    /\ variant = "basic"
    /\ pc = "Idle"
    /\ pc' = "Emitting"
    /\ calls' = calls + 1
    \* 72 + Math.random() * 30
    /\ tempo' = 72 * RandDen + Rand(tape, draws) * 30
    /\ progression' = Pick(tape, draws + 1, Len(progressionTemplatesBasic)) + 1
    /\ tensionArc' = generateTensionArc(length, tape, draws + 2)
    /\ draws' = draws + 2 + length
    /\ step' = 0
    /\ time' = 0
    /\ prevNotes' = << >>
    /\ UNCHANGED << probe, variant, options, tape, selected, chords, track, blobs,
                    outcome >>

\* one iteration of the loop
EmitStepBasic ==
    /\ variant = "basic"
    /\ pc = "Emitting"
    /\ step < length
    /\ LET roots == progressionTemplatesBasic[progression]
           root == 60 + roots[(step % Len(roots)) + 1]
           key == voicingKeysBasic[Pick(tape, draws, Len(voicingKeysBasic)) + 1]
           built == createRichVoicingBasic(tape, draws + 1, root, voicingsBasic[key],
                        tensionArc[step + 1], 10 * length * RandDen, step)
           notes == smoothVoiceLeading(built.notes, prevNotes)
           \* time + (Math.random() - 0.5) * 0.02
           chordStart == time + 2 * (2 * Rand(tape, built.k) - RandDen)
       IN  /\ selected' = key
           /\ chords' = Append(chords, [ spread |-> built.notes, notes |-> notes,
                                         ref |-> prevNotes ])
           /\ track' = Append(track, addNotesBasic(tape, built.k + 1, notes, chordStart))
           /\ draws' = built.k + 1 + 3 * Len(notes)
           /\ prevNotes' = nextPrevNotes(built.notes, notes)
    /\ time' = time + 2 * 200 * RandDen
    /\ step' = step + 1
    /\ UNCHANGED << probe, variant, options, tape, pc, tempo, progression, tensionArc,
                    calls, blobs, outcome >>

\* the loop has ended: the blob URL and the filename (Date.now() left out)
ReturnBasic ==
    /\ variant = "basic"
    /\ pc = "Emitting"
    /\ step >= length
    /\ pc' = "Done"
    /\ blobs' = blobs + 1
    /\ outcome' = [ status |-> "returned", url |-> "blob",
                    filename |-> << "citypop", "progression", roundTempo(tempo),
                                    "bpm.mid" >>,
                    message |-> "none" ]
    /\ UNCHANGED << probe, variant, options, tape, draws, step, time, tempo, progression,
                    tensionArc, prevNotes, selected, chords, track, calls >>

-----------------------------------------------------------------------------
(* The specification *)

Options ==
    [ era : Eras, style : Styles, artistInfluence : Artists ]

NoOptions == [ era |-> "none", style |-> "none", artistInfluence |-> "none" ]

Init ==
    /\ variant \in { "enhanced", "basic" }
    /\ options \in (IF variant = "enhanced" THEN Options ELSE { NoOptions })
    /\ tape \in Tapes
    /\ draws = 0
    /\ pc = "Idle"
    /\ step = 0
    /\ time = 0
    /\ tempo = 0
    /\ progression = 0
    /\ tensionArc = << >>
    /\ prevNotes = << >>
    /\ selected = "none"
    /\ chords = << >>
    /\ track = << >>
    /\ calls = 0
    /\ blobs = 0
    /\ outcome = Pending
    /\ probe = [ fn |-> "none" ]

Next ==
    \/ Generate
    \/ EmitStep
    \/ StepThrows
    \/ Return
    \/ GenerateBasic
    \/ EmitStepBasic
    \/ ReturnBasic

Spec == Init /\ [][Next]_vars

-----------------------------------------------------------------------------
(* generateTensionArc applied on its own, to every length 2..MaxArcLen *)

\* no generator has run
Untouched ==
    /\ variant = "enhanced"
    /\ options = NoOptions
    /\ draws = 0
    /\ pc = "Idle"
    /\ step = 0
    /\ time = 0
    /\ tempo = 0
    /\ progression = 0
    /\ tensionArc = << >>
    /\ prevNotes = << >>
    /\ selected = "none"
    /\ chords = << >>
    /\ track = << >>
    /\ calls = 0
    /\ blobs = 0
    /\ outcome = Pending

ArcInit ==
    /\ Untouched
    /\ tape \in Tapes
    /\ \E len \in 2..MaxArcLen :
          probe = [ fn |-> "generateTensionArc", length |-> len, returned |-> FALSE,
                    result |-> << >> ]

ArcCall ==
    /\ probe.fn = "generateTensionArc"
    /\ ~ probe.returned
    /\ probe' = [ probe EXCEPT !.returned = TRUE,
                               !.result = generateTensionArc(probe.length, tape, 0) ]
    /\ UNCHANGED << variant, options, tape, draws, pc, step, time, tempo,
                    progression, tensionArc, prevNotes, selected, chords, track,
                    calls, blobs, outcome >>

ArcSpec == ArcInit /\ [][ArcCall]_vars

-----------------------------------------------------------------------------
(* The voice-leading block applied on its own, to one note and every previous *)
(* chord of 1..MaxPrevLen pitches around the pitches 60 and 70                *)

SmoothPitches == (60 - SmoothSpan)..(70 + SmoothSpan)

SmoothInit ==
    /\ Untouched
    /\ tape = [ i \in 1..TapeLen |-> 0 ]
    /\ \E n \in 1..MaxPrevLen : \E prev \in [ 1..n -> SmoothPitches ] :
       \E note \in SmoothPitches :
          probe = [ fn |-> "smoothVoiceLeading", notes |-> << note >>, prev |-> prev,
                    returned |-> FALSE, result |-> << >> ]

SmoothCall ==
    /\ probe.fn = "smoothVoiceLeading"
    /\ ~ probe.returned
    /\ probe' = [ probe EXCEPT !.returned = TRUE,
                               !.result = smoothVoiceLeading(probe.notes, probe.prev) ]
    /\ UNCHANGED << variant, options, tape, draws, pc, step, time, tempo,
                    progression, tensionArc, prevNotes, selected, chords, track,
                    calls, blobs, outcome >>

SmoothSpec == SmoothInit /\ [][SmoothCall]_vars

-----------------------------------------------------------------------------
(* Claims *)

ChordIndices == 1..Len(chords)

\* C1: for every valid configuration and every sequence of draws the driver
\* goes from Idle through Emitting(step 0..7) to Done and emits exactly 8
\* chords' worth of notes, one non-empty chord per step: it never ends in a
\* failure, while emitting it has emitted one non-empty chord per finished
\* step, and at Done that makes 8.
C1_EightChordsForEveryConfiguration ==
    /\ pc # "Failed"
    /\ pc \in { "Emitting", "Done" } =>
          /\ step <= length
          /\ Len(track) = step
          /\ \A i \in 1..Len(track) : Len(track[i]) >= 1
    /\ pc = "Done" => Len(track) = 8

\* C2: every pitch handed to track.addNote is an integer of [0,127], however far
\* builder, spreader and smoother moved the note: it is the note of the final
\* list pulled into [0,127] (the note itself when that is in [0,127] already).
C2_EmittedPitchInMidiRange ==
    \A i \in 1..Len(track) : \A j \in 1..Len(track[i]) :
        LET midi == track[i][j].midi
            note == chords[i].notes[j]
        IN  /\ midi \in 0..127
            /\ note \in 0..127 => midi = note
            /\ note > 127 => midi = 127
            /\ note < 0 => midi = 0

\* a chord has been emitted in which the smoother moved a note out of the
\* spreader's target range [36,84], and that note was emitted as it is
C2_Witness ==
    \E i \in 1..Len(track) : \E j \in 1..Len(track[i]) :
        /\ chords[i].notes[j] # chords[i].spread[j]
        /\ chords[i].notes[j] > 84
        /\ track[i][j].midi = chords[i].notes[j]

\* C3 as stated: every pitch of the sequence spreadVoicing returns lies in
\* [36,84], so that running the range clamp again changes nothing.
C3_SpreadWithinTargetRange ==
    \A i \in ChordIndices : \A j \in 1..Len(chords[i].spread) :
        /\ chords[i].spread[j] >= 36
        /\ chords[i].spread[j] <= 84

\* C3 as amended: every pitch of the sequence spreadVoicing returns lies in
\* [36,123]; the lower limit is the claimed one, the upper one is not 84.
C3_SpreadWithinReachedRange ==
    \A i \in ChordIndices : \A j \in 1..Len(chords[i].spread) :
        /\ chords[i].spread[j] >= 36
        /\ chords[i].spread[j] <= 123

\* spreadVoicing has returned a sequence that starts at the lower limit 36 and
\* holds a pitch above 84
C3_Witness ==
    \E i \in ChordIndices :
        /\ chords[i].spread[1] = 36
        /\ \E j \in 1..Len(chords[i].spread) : chords[i].spread[j] > 84

\* the previous note the claim names for note n: at minimal distance, the first
\* one of the previous chord on ties
NearestPrevious(prev, n) ==
    LET dist(i) == Abs(prev[i] - n)
        first == CHOOSE i \in 1..Len(prev) :
                    /\ \A m \in 1..Len(prev) : dist(i) <= dist(m)
                    /\ \A m \in 1..(i - 1) : dist(m) > dist(i)
    IN  prev[first]

\* C4: with c the nearest previous note of note n (the first one on ties), the
\* note becomes n + 12 when |c - n| > 7 and c > n, n - 12 when |c - n| > 7 and
\* not c > n, and then ends strictly closer to c; it is unchanged when
\* |c - n| <= 7.  Previous chord [60] and note 70 give 58.
C4_SmoothingRule ==
    (probe.fn = "smoothVoiceLeading" /\ probe.returned) =>
        /\ Len(probe.result) = Len(probe.notes)
        /\ \A idx \in 1..Len(probe.notes) :
              LET n == probe.notes[idx]
                  c == NearestPrevious(probe.prev, n)
                  r == probe.result[idx]
              IN  /\ (Abs(c - n) > 7 /\ c > n) => r = n + 12
                  /\ (Abs(c - n) > 7 /\ ~ (c > n)) => r = n - 12
                  /\ Abs(c - n) > 7 => Abs(c - r) < Abs(c - n)
                  /\ Abs(c - n) <= 7 => r = n
        /\ (probe.prev = << 60 >> /\ probe.notes = << 70 >>) => probe.result = << 58 >>

\* the block has been applied to previous chord [60] and note 70
C4_Witness ==
    /\ probe.fn = "smoothVoiceLeading"
    /\ probe.returned
    /\ probe.prev = << 60 >>
    /\ probe.notes = << 70 >>
    /\ probe.result = << 58 >>

\* C5: generateTensionArc(L) returns exactly L values for L >= 2, each in
\* [0.3, 0.9] whatever the noise drawn (values in 1/(10 * L * RandDen)).
C5_TensionArcInRange ==
    (probe.fn = "generateTensionArc" /\ probe.returned) =>
        /\ Len(probe.result) = probe.length
        /\ \A i \in 1..Len(probe.result) :
              /\ probe.result[i] >= 3 * probe.length * RandDen
              /\ probe.result[i] <= 9 * probe.length * RandDen

\* an arc has been returned in which the value at the peak, 0.8 plus a positive
\* noise, was cut to 0.9, and another value lies strictly inside the range
C5_Witness ==
    /\ probe.fn = "generateTensionArc"
    /\ probe.returned
    /\ \E i \in 1..Len(probe.result) :
          /\ i - 1 = peakOf(probe.length)
          /\ Rand(tape, i - 1) * 2 > RandDen
          /\ probe.result[i] = 9 * probe.length * RandDen
    /\ \E i \in 1..Len(probe.result) :
          /\ probe.result[i] > 3 * probe.length * RandDen
          /\ probe.result[i] < 9 * probe.length * RandDen

\* C6: generation is all-or-nothing.  When a step of generateMidiFile throws
\* (the selected voicing is undefined), generateAndDownloadMidi ends in the one
\* failure 'Failed to generate MIDI file', with no url, no filename and no blob
\* URL made; generateMidiFile is called once, never again; a descriptor is
\* returned only with a blob URL over a complete piece of 8 non-empty chords;
\* before the end the caller has nothing.
C6_AllOrNothing ==
    /\ calls <= 1
    /\ selected = "undefined" => pc = "Failed"
    /\ pc = "Failed" =>
          /\ outcome = [ status |-> "threw", url |-> "none", filename |-> << >>,
                         message |-> "Failed to generate MIDI file" ]
          /\ blobs = 0
    /\ outcome.status = "returned" =>
          /\ pc = "Done"
          /\ outcome.url = "blob"
          /\ outcome.filename # << >>
          /\ blobs = 1
          /\ Len(track) = 8
          /\ \A i \in 1..Len(track) : Len(track[i]) >= 1
    /\ pc \in { "Idle", "Emitting" } => (outcome = Pending /\ blobs = 0)

\* the export has failed for { era: mid80s, artistInfluence: Tatsuro Yamashita },
\* whose filter leaves no voicing
C6_Witness ==
    /\ pc = "Failed"
    /\ options.era = "mid80s"
    /\ options.artistInfluence = "Tatsuro Yamashita"
    /\ selected = "undefined"
    /\ outcome.status = "threw"

\* C7: the voicing handed to the Voicing Builder is always a template of the
\* catalog with (era unset or its era the configured one) and (artistInfluence
\* unset or its artistStyle the configured one), so for { era: mid80s,
\* artistInfluence: Tatsuro Yamashita } one tagged with both; and a filter that
\* leaves no template is handled, it does not crash the generation.
C7_SelectedVoicingMatchesFilter ==
    variant = "enhanced" =>
        /\ selected # "none" =>
              /\ selected \in Range(voicingKeys)
              /\ options.era = "none" \/ voicings[selected].era = options.era
              /\ options.artistInfluence = "none"
                    \/ voicings[selected].artistStyle = options.artistInfluence
        /\ filterVoicingKeys(options) = << >> => pc # "Failed"

\* tempoRange and velocityRange of the style in force, as the claim gives them
StyleRange(opts) ==
    CASE opts.style = "ballad" -> [ tempo |-> << 65, 80 >>, velocity |-> << 60, 85 >> ]
      [] opts.style = "fusion" -> [ tempo |-> << 90, 110 >>, velocity |-> << 70, 90 >> ]
      [] OTHER -> [ tempo |-> << 120, 135 >>, velocity |-> << 75, 95 >> ]

\* C8: in the enhanced generator the tempo, once chosen, lies in the tempoRange
\* of the style in force and the velocity of every emitted note, before the
\* division by 127, in its velocityRange (uptempo when the style is unset):
\* [65,80] and [60,85] for { style: ballad }.  Values in 1/RandDen.
C8_TempoAndVelocityInStyleRange ==
    variant = "enhanced" =>
        /\ pc # "Idle" =>
              /\ tempo >= StyleRange(options).tempo[1] * RandDen
              /\ tempo <= StyleRange(options).tempo[2] * RandDen
        /\ \A i \in 1..Len(track) : \A j \in 1..Len(track[i]) :
              /\ track[i][j].velocity >= StyleRange(options).velocity[1] * RandDen
              /\ track[i][j].velocity <= StyleRange(options).velocity[2] * RandDen
        /\ (options.style = "ballad" /\ pc # "Idle") =>
              /\ tempo >= 65 * RandDen
              /\ tempo <= 80 * RandDen
              /\ \A i \in 1..Len(track) : \A j \in 1..Len(track[i]) :
                    /\ track[i][j].velocity >= 60 * RandDen
                    /\ track[i][j].velocity <= 85 * RandDen

\* a ballad has been generated to the end with a tempo above 79, a note of
\* velocity 60 and a note of velocity above 84
C8_Witness ==
    /\ variant = "enhanced"
    /\ options.style = "ballad"
    /\ pc = "Done"
    /\ tempo > 79 * RandDen
    /\ \E i \in 1..Len(track) : \E j \in 1..Len(track[i]) :
          track[i][j].velocity = 60 * RandDen
    /\ \E i \in 1..Len(track) : \E j \in 1..Len(track[i]) :
          track[i][j].velocity > 84 * RandDen

\* C10: at step 0 the smoother has no previous chord and the chord stays what
\* spreadVoicing returned; at every later step the previous chord the smoother
\* reads is the final list (after smoothing) of the step before, which is also
\* what prevNotes holds after each step.
C10_PreviousChordHandover ==
    /\ \A k \in ChordIndices :
          /\ k = 1 => (chords[k].ref = << >> /\ chords[k].notes = chords[k].spread)
          /\ k > 1 => chords[k].ref = chords[k - 1].notes
    /\ Len(chords) >= 1 => prevNotes = chords[Len(chords)].notes

\* three steps are done; step 1 was changed by the smoother, so its final list
\* is neither what spreadVoicing returned then nor the list of step 0, and step
\* 2 read that final list
C10_Witness ==
    /\ Len(chords) >= 3
    /\ chords[2].notes # chords[2].spread
    /\ chords[2].notes # chords[1].notes
    /\ chords[3].ref = chords[2].notes
    /\ chords[3].notes # chords[3].spread

\* every note of a step starts strictly before every note of the step after it
C11_StepsInOrder ==
    \A k \in 1..(Len(track) - 1) :
        \A i \in 1..Len(track[k]) : \A j \in 1..Len(track[k + 1]) :
            track[k][i].time < track[k + 1][j].time

\* no note handed to track.addNote starts before time 0
C11_StartTimesNonNegative ==
    \A k \in 1..Len(track) : \A i \in 1..Len(track[k]) : track[k][i].time >= 0

\* C11: emitted chords never reorder in time: for every style and every draw of
\* swing and per-note jitter, every note of step k starts strictly before every
\* note of step k + 1 (k in 0..6), and every emitted note starts at a time that
\* is not negative.
C11_ChordsOrderedFromTimeZero ==
    /\ C11_StepsInOrder
    /\ C11_StartTimesNonNegative

====
